---- MODULE Spec2Model ----
(***************************************************************************)
(* Model of tmdb_cache (the file-backed cache over the TMDB service) and   *)
(* of the asynchronous callbacks it runs on Node's single-threaded event   *)
(* loop.  One action is one callback run to completion together with the   *)
(* promise reactions (microtasks) it triggers.                             *)
(*                                                                         *)
(* Time is counted in ticks of 30 days, so the 30 day default ttl of the   *)
(* source is 1 tick.                                                       *)
(***************************************************************************)
EXTENDS Integers, Sequences, FiniteSets, TLC

\* ------------------------------------------------------------------ bounds
MaxTime == 2
MaxInfoCalls == 2
MaxPosterCalls == 2

\* --------------------------------------------------------------- constants
configCacheFilePath == "./tmdb_cache/configuration.json"
infoCachePath == "./tmdb_cache/movie_info/"
postersCachePath == "./tmdb_cache/posters/"
defaultTtl == 1

\* ---------------------------------------------------------------- JS values
\* Every JavaScript value is a record tagged by t.
JSUndefined == [t |-> "undefined"]
JSNull == [t |-> "null"]
JSError(code) == [t |-> "error", code |-> code]
JSString(s) == [t |-> "string", s |-> s]
JSNumber(n) == [t |-> "number", n |-> n]
JSFalse == [t |-> "false"]
JSNaN == [t |-> "NaN"]

\* Bodies the metadata service can answer with for a movie.
MovieData ==
  { [t |-> "object", title |-> "The Matrix", poster_path |-> "/p.jpg"],
    [t |-> "object", title |-> "The Matrix Reloaded", poster_path |-> "/q.jpg"] }

\* Bodies the metadata service can answer with for the configuration.
ConfigData ==
  { [t |-> "object", images |-> [base_url |-> "https://image.tmdb.org/t/p/"]] }

\* A configuration it answered with to an earlier process.
EarlierConfigData ==
  [t |-> "object", images |-> [base_url |-> "http://image.tmdb.org/t/p/"]]

\* Inputs of the exported functions.
Ids == {"603"}
PosterNames == {"/p.jpg"}
Sizes == {"original"}

\* Poster file names and sizes that differ in where the one ends and the
\* other starts.
KeyNames == {"/x.jpg", "85/x.jpg"}
KeySizes == {"w185", "w1"}

\* ------------------------------------------------------------ file contents
\* The bytes of a file: the JSON text of a value, bytes that are no JSON
\* text, nothing at all (a file just truncated), or image bytes.
EmptyBytes == [bytes |-> "empty"]
MalformedBytes == [bytes |-> "malformed"]
ImageBytes(complete) == [bytes |-> "image", complete |-> complete]

\* Mutant: the value is written as a string ("[object Object]"), not as JSON.
JSONstringifyToString(v) == MalformedBytes

\* The value the text JSON.stringify(v) denotes: a property whose value is
\* undefined is left out, NaN is written as null.  (runtime is the property
\* of the modelled objects that can hold either.)
JSONvalue(v) ==
  IF v = JSNaN THEN JSNull
  ELSE IF v.t = "object" /\ "runtime" \in DOMAIN v
    THEN IF v.runtime = JSUndefined THEN [f \in DOMAIN v \ {"runtime"} |-> v[f]]
         ELSE IF v.runtime = JSNaN THEN [v EXCEPT !.runtime = JSNull]
         ELSE v
  ELSE v

\* JSON.stringify(value): the text of a JSON value
JSONstringify(v) == [bytes |-> "json", of |-> JSONvalue(v)]

\* JSON.parse(bytes): the value of a JSON text, or a SyntaxError
JSONparse(b) ==
  IF b.bytes = "json"
    THEN [ok |-> TRUE, val |-> b.of]
    ELSE [ok |-> FALSE, val |-> JSError("SyntaxError")]

\* -------------------------------------------------------------------- paths
getInfoCacheFilePathFromId(tmdb_id) == infoCachePath \o tmdb_id \o ".json"

getMoviePosterCachePath(posterFileName, size) ==
  postersCachePath \o size \o posterFileName

InfoPaths == { getInfoCacheFilePathFromId(i) : i \in Ids }
PosterPaths == { getMoviePosterCachePath(p, s) : p \in PosterNames, s \in Sizes }
KeyPaths == { getMoviePosterCachePath(p, s) : p \in KeyNames, s \in KeySizes }
MoviePosterPaths ==
  { getMoviePosterCachePath(d.poster_path, "original") : d \in MovieData }
AllPaths ==
  InfoPaths \cup {configCacheFilePath} \cup PosterPaths \cup KeyPaths
    \cup MoviePosterPaths

\* ---------------------------------------------------------------- freshness
\* Mutant: isSameOrBefore in place of isBefore.
isValidCacheFileDateSameOrBefore(fileDate, ttl, nowT) ==
  LET t == IF ttl = 0 THEN defaultTtl ELSE ttl
      oldestValidDate == nowT - t
  IN  ~(fileDate <= oldestValidDate)

\* isValidCacheFileDate with "new Date()" passed as nowT: false exactly when
\* fileDate is before nowT - ttl.  A falsy ttl (undefined, 0) is the default.
isValidCacheFileDate(fileDate, ttl, nowT) ==
  LET t == IF ttl = 0 THEN defaultTtl ELSE ttl
      oldestValidDate == nowT - t
  IN  ~(fileDate < oldestValidDate)

\* What the fs.stat callback of validateCacheFileDate settles its promise
\* with, for file record f at time nowT.  A stale file rejects with the
\* (null) err of the successful stat.
validateCacheFileDate(f, nowT) ==
  IF ~f.exists THEN [ok |-> FALSE, val |-> JSError("ENOENT")]
  ELSE IF ~isValidCacheFileDate(f.mtime, 0, nowT) THEN [ok |-> FALSE, val |-> JSNull]
  ELSE [ok |-> TRUE, val |-> [t |-> "object", isValidCacheFileDate |-> TRUE]]

\* Mutant: the promise resolves with the text read, JSON.parse is left out.
validateCacheFileContentsRaw(f) ==
  IF ~f.exists THEN [ok |-> FALSE, val |-> JSError("ENOENT")]
  ELSE [ok |-> TRUE, val |-> JSString("text")]

\* What the fs.readFile callback of validateCacheFileContents settles its
\* promise with.
validateCacheFileContents(f) ==
  IF ~f.exists THEN [ok |-> FALSE, val |-> JSError("ENOENT")]
  ELSE JSONparse(f.content)

\* -------------------------------------------------------------------- state
VARIABLES
  now,                \* the wall clock, new Date()
  files,              \* the file system under ./tmdb_cache
  tmdbImagesBaseUrl,  \* the module-level singleton
  info,               \* the getMovieInfo calls
  poster,             \* the getMoviePoster calls
  crashed,            \* the process died of an uncaught exception
  posts               \* the posts of the export the Batch Driver works on

vars == <<now, files, tmdbImagesBaseUrl, info, poster, crashed, posts>>

InfoCalls == 1..MaxInfoCalls
PosterCalls == 1..MaxPosterCalls

\* Post p of the export makes getMovieInfo call p and getMoviePoster call p.
Posts == InfoCalls \cap PosterCalls

NoFile == [exists |-> FALSE, mtime |-> 0, content |-> EmptyBytes, writer |-> 0]
FileOf(content) == [exists |-> TRUE, mtime |-> 0, content |-> content, writer |-> 0]

\* A promise settles once: resolve and reject of a settled promise do nothing.
Settle(r, how, v) ==
  IF r.promise = "pending" THEN [r EXCEPT !.promise = how, !.value = v] ELSE r

\* The file fs.writeFile(path, bytes) of call c leaves at time nowT.
Written(c, bytes, nowT) ==
  [exists |-> TRUE, mtime |-> nowT, content |-> bytes, writer |-> c]

\* The files a failed fs.writeFile can leave: the file as it was when it could
\* not be opened, else the file it opened (flag 'w') and did not fill.
WriteFailed(f, c, nowT) == {f, Written(c, EmptyBytes, nowT)}

\* An exception that leaves a callback of a library is uncaught: the process
\* dies, unless the library swallows it.
Uncaught(thrown) ==
  IF thrown THEN crashed' \in BOOLEAN ELSE crashed' = crashed

\* Mutant: the contents promise is left out of Promise.all.
validateCacheFileDateOnly(prev, stat, statVal, read, readVal) ==
  IF prev.state # "pending" THEN prev
  ELSE IF stat = "fail" THEN [state |-> "rejected", val |-> statVal]
  ELSE IF stat = "ok" THEN [state |-> "resolved", val |-> readVal]
  ELSE prev

\* validateCacheFile: Promise.all of the date and the contents promises, whose
\* states are stat and read.  It was in state prev before the callback that
\* just ran; it rejects with the first rejection, and resolves with both
\* results (results[1] is the parsed JSON) once both promises have resolved.
validateCacheFile(prev, stat, statVal, read, readVal) ==
  IF prev.state # "pending" THEN prev
  ELSE IF stat = "fail" THEN [state |-> "rejected", val |-> statVal]
  ELSE IF read = "fail" THEN [state |-> "rejected", val |-> readVal]
  ELSE IF stat = "ok" /\ read = "ok" THEN [state |-> "resolved", val |-> readVal]
  ELSE prev

\* ------------------------------------------------------- Metadata Resolver
IdleInfo ==
  [st |-> "idle", id |-> "", stat |-> "none", statVal |-> JSUndefined,
   read |-> "none", readVal |-> JSUndefined,
   vfile |-> "none", verr |-> JSUndefined,
   promise |-> "none", value |-> JSUndefined,
   fetches |-> 0, ferr |-> JSUndefined,
   write |-> "none", wdata |-> JSUndefined,
   after |-> {}]

\* fetchMovieInfo up to the request: MovieDB.movieInfo is issued.
fetchMovieInfo(r) == [r EXCEPT !.st = "fetching", !.fetches = @ + 1]

\* Mutant: the cached value is not used, every call fetches.
getMovieInfoReactNoHit(r) ==
  IF r.st # "validating" THEN r
  ELSE
    LET v == validateCacheFile([state |-> r.vfile, val |-> r.verr],
                               r.stat, r.statVal, r.read, r.readVal)
    IN  IF v.state = "pending" THEN r
        ELSE fetchMovieInfo([r EXCEPT !.vfile = v.state, !.verr = v.val])

\* Mutant: the catch-handler rejects with the error of the cache read.
getMovieInfoReactPropagate(r) ==
  IF r.st # "validating" THEN r
  ELSE
    LET v == validateCacheFile([state |-> r.vfile, val |-> r.verr],
                               r.stat, r.statVal, r.read, r.readVal)
    IN  IF v.state = "rejected" THEN
          [Settle([r EXCEPT !.vfile = "rejected", !.verr = v.val], "rejected", v.val)
             EXCEPT !.st = "done"]
        ELSE IF v.state = "resolved" THEN
          [Settle(r, "resolved", v.val) EXCEPT !.vfile = "resolved", !.st = "done"]
        ELSE r

\* The reactions of getMovieInfo to the promise of validateCacheFile, once a
\* callback has left the call in r.  An exception thrown by the then-handler
\* (results[1].title of null) lands in the catch-handler.
getMovieInfoReact(r) ==
  IF r.st # "validating" THEN r
  ELSE
    LET v == validateCacheFile([state |-> r.vfile, val |-> r.verr],
                               r.stat, r.statVal, r.read, r.readVal)
    IN  IF v.state = "rejected" THEN
          fetchMovieInfo([r EXCEPT !.vfile = "rejected", !.verr = v.val])
        ELSE IF v.state = "resolved" THEN
          IF v.val \in {JSNull, JSUndefined}
            THEN fetchMovieInfo([r EXCEPT !.vfile = "resolved"])
            ELSE [Settle(r, "resolved", v.val) EXCEPT !.vfile = "resolved", !.st = "done"]
        ELSE r

\* getMovieInfo(tmdb_id): validateCacheFile starts fs.stat and fs.readFile.
\* saved are the calls whose write had completed by then.
getMovieInfo(tmdb_id, saved) ==
  [IdleInfo EXCEPT !.st = "validating", !.id = tmdb_id,
                   !.stat = "pending", !.read = "pending",
                   !.vfile = "pending", !.promise = "pending",
                   !.after = saved]

\* A caller calls getMovieInfo(tmdb_id).  Call slots are taken in order.
GetMovieInfo(c, tmdb_id) ==
  /\ ~crashed
  /\ info[c].st = "idle"
  /\ \A d \in InfoCalls : d < c => info[d].st # "idle"
  /\ info' = [info EXCEPT ![c] =
       getMovieInfo(tmdb_id, {d \in InfoCalls : info[d].write = "saved"})]
  /\ UNCHANGED <<now, files, tmdbImagesBaseUrl, poster, crashed, posts>>

\* The fs.stat callback of validateCacheFileDate.
InfoStatCallback(c) ==
  /\ ~crashed
  /\ info[c].stat = "pending"
  /\ LET res == validateCacheFileDate(files[getInfoCacheFilePathFromId(info[c].id)], now)
         r == [info[c] EXCEPT !.stat = IF res.ok THEN "ok" ELSE "fail",
                              !.statVal = res.val]
     IN  info' = [info EXCEPT ![c] = getMovieInfoReact(r)]
  /\ UNCHANGED <<now, files, tmdbImagesBaseUrl, poster, crashed, posts>>

\* The fs.readFile callback of validateCacheFileContents.
InfoReadCallback(c) ==
  /\ ~crashed
  /\ info[c].read = "pending"
  /\ LET res == validateCacheFileContents(files[getInfoCacheFilePathFromId(info[c].id)])
         r == [info[c] EXCEPT !.read = IF res.ok THEN "ok" ELSE "fail",
                              !.readVal = res.val]
     IN  info' = [info EXCEPT ![c] = getMovieInfoReact(r)]
  /\ UNCHANGED <<now, files, tmdbImagesBaseUrl, poster, crashed, posts>>

\* What MovieDB.movieInfo can call back with: (null, body) or (error, null).
MovieInfoResponses ==
  { [err |-> JSNull, data |-> d] : d \in MovieData }
    \cup { [err |-> JSError("network"), data |-> JSNull] }

\* Mutant: the callback does not look at err.
fetchMovieInfoCallbackNoReject(r, err, data) ==
  LET r0 == [r EXCEPT !.ferr = err, !.st = "done"]
  IN  IF data \in {JSNull, JSUndefined}
        THEN [thrown |-> TRUE, r |-> r0]
        ELSE [thrown |-> FALSE,
              r |-> Settle([r0 EXCEPT !.write = "pending", !.wdata = data],
                           "resolved", data)]

\* Mutant: resolve(data) is called from the then-handler of saveMovieInfo,
\* so the promise stays pending while the write is under way.
fetchMovieInfoCallbackAwaitSave(r, err, data) ==
  LET r0 == [r EXCEPT !.ferr = err, !.st = "done"]
      r1 == IF err # JSNull THEN Settle(r0, "rejected", err) ELSE r0
  IN  IF data \in {JSNull, JSUndefined}
        THEN [thrown |-> TRUE, r |-> r1]
        ELSE [thrown |-> FALSE,
              r |-> [r1 EXCEPT !.write = "pending", !.wdata = data]]

\* The callback of fetchMovieInfo.  reject(err) does not return, so the
\* callback goes on to data.title, which throws when data is null; otherwise
\* saveMovieInfo is started and resolve(data) is called.
fetchMovieInfoCallback(r, err, data) ==
  LET r0 == [r EXCEPT !.ferr = err, !.st = "done"]
      r1 == IF err # JSNull THEN Settle(r0, "rejected", err) ELSE r0
  IN  IF data \in {JSNull, JSUndefined}
        THEN [thrown |-> TRUE, r |-> r1]
        ELSE [thrown |-> FALSE,
              r |-> Settle([r1 EXCEPT !.write = "pending", !.wdata = data],
                           "resolved", data)]

MovieInfoResponse(c, resp) ==
  /\ ~crashed
  /\ info[c].st = "fetching"
  /\ LET out == fetchMovieInfoCallback(info[c], resp.err, resp.data)
     IN  /\ info' = [info EXCEPT ![c] = out.r]
         /\ Uncaught(out.thrown)
  /\ UNCHANGED <<now, files, tmdbImagesBaseUrl, poster, posts>>

\* The fs.writeFile callback of saveMovieInfo: JSON.stringify(movieInfo) is
\* in the file, or the write failed and the catch-handler logs the error.
SaveMovieInfoCallback(c, ok) ==
  /\ ~crashed
  /\ info[c].write = "pending"
  /\ LET p == getInfoCacheFilePathFromId(info[c].id)
     IN  IF ok
           THEN /\ files' = [files EXCEPT ![p] = Written(c, JSONstringify(info[c].wdata), now)]
                /\ info' = [info EXCEPT ![c].write = "saved"]
           ELSE /\ \E f \in WriteFailed(files[p], c, now) : files' = [files EXCEPT ![p] = f]
                /\ info' = [info EXCEPT ![c].write = "failed"]
  /\ UNCHANGED <<now, tmdbImagesBaseUrl, poster, crashed, posts>>

\* Time passes.
Tick ==
  /\ ~crashed
  /\ now < MaxTime
  /\ now' = now + 1
  /\ UNCHANGED <<files, tmdbImagesBaseUrl, info, poster, crashed, posts>>

\* ----------------------------------------------- Configuration Resolver
\* The calls of getMoviePoster; each carries the getTMDBImagesBaseUrl and
\* getAPIConfiguration calls made on its behalf.
IdlePoster ==
  [st |-> "idle", name |-> "", size |-> "", dest |-> "",
   stat |-> "none", cstat |-> "none", cread |-> "none", creadVal |-> JSUndefined,
   cvfile |-> "none", cpromise |-> "none", cvalue |-> JSUndefined,
   promise |-> "none", value |-> JSUndefined,
   configs |-> 0, cfetches |-> 0, cferr |-> JSUndefined,
   requests |-> 0, url |-> "", status |-> 0,
   write |-> "none", wdata |-> JSUndefined,
   stream |-> "none"]

\* resolve and reject of the promise getAPIConfiguration returned
SettleConfig(r, how, v) ==
  IF r.cpromise = "pending" THEN [r EXCEPT !.cpromise = how, !.cvalue = v] ELSE r

\* results.images.base_url can be read
HasBaseUrl(v) == v.t = "object" /\ "images" \in DOMAIN v

\* fetchAndSaveMoviePoster, the then-handler of getTMDBImagesBaseUrl, which
\* resolved with base: request(url) is issued.
requestPoster(r, base) ==
  [r EXCEPT !.st = "requesting", !.requests = @ + 1,
            !.url = base.s \o r.size \o r.name]

\* Mutant: the catch-handler clears the singleton before it rejects.
getTMDBImagesBaseUrlReactUnset(r, base) ==
  IF r.st \notin {"config", "cfgfetching"} \/ r.cpromise = "pending"
    THEN [r |-> r, base |-> base]
  ELSE IF r.cpromise = "resolved" /\ HasBaseUrl(r.cvalue)
    THEN [r |-> requestPoster(r, JSString(r.cvalue.images.base_url)),
          base |-> JSString(r.cvalue.images.base_url)]
  ELSE [r |-> [Settle(r, "rejected", JSUndefined) EXCEPT !.st = "done"],
        base |-> JSUndefined]

\* The reactions of getTMDBImagesBaseUrl, fetchAndSaveMoviePoster and
\* getMoviePoster once the promise of getAPIConfiguration is settled in r;
\* base is the singleton they leave.  A rejection, and an exception of
\* results.images.base_url, both reject with the singleton as it is.
getTMDBImagesBaseUrlReact(r, base) ==
  IF r.st \notin {"config", "cfgfetching"} \/ r.cpromise = "pending"
    THEN [r |-> r, base |-> base]
  ELSE IF r.cpromise = "resolved" /\ HasBaseUrl(r.cvalue)
    THEN [r |-> requestPoster(r, JSString(r.cvalue.images.base_url)),
          base |-> JSString(r.cvalue.images.base_url)]
  ELSE [r |-> [Settle(r, "rejected", base) EXCEPT !.st = "done"], base |-> base]

\* fetchAPIConfiguration up to the request: MovieDB.configuration is issued.
fetchAPIConfiguration(r) == [r EXCEPT !.st = "cfgfetching", !.cfetches = @ + 1]

\* The reactions of getAPIConfiguration to the promise of validateCacheFile,
\* which the callback that just ran left in state v.
getAPIConfigurationReact(r, v) ==
  IF r.st # "config" THEN r
  ELSE IF v.state = "rejected" THEN fetchAPIConfiguration([r EXCEPT !.cvfile = "rejected"])
  ELSE IF v.state = "resolved"
    THEN SettleConfig([r EXCEPT !.cvfile = "resolved"], "resolved", v.val)
  ELSE r

\* Mutant: the singleton is not looked at.
getTMDBImagesBaseUrlNoShortCircuit(r, base) ==
  [r EXCEPT !.st = "config", !.configs = @ + 1,
            !.cstat = "pending", !.cread = "pending",
            !.cvfile = "pending", !.cpromise = "pending"]

\* getTMDBImagesBaseUrl(): the singleton if it is set, else getAPIConfiguration(),
\* whose validateCacheFile starts fs.stat and fs.readFile.
getTMDBImagesBaseUrl(r, base) ==
  IF base # JSUndefined
    THEN requestPoster(r, base)
    ELSE [r EXCEPT !.st = "config", !.configs = @ + 1,
                   !.cstat = "pending", !.cread = "pending",
                   !.cvfile = "pending", !.cpromise = "pending"]

\* The fs.stat callback of validateCacheFileDate(configCacheFilePath).
ConfigStatCallback(c) ==
  /\ ~crashed
  /\ poster[c].cstat = "pending"
  /\ LET res == validateCacheFileDate(files[configCacheFilePath], now)
         r == [poster[c] EXCEPT !.cstat = IF res.ok THEN "ok" ELSE "fail"]
         v == validateCacheFile([state |-> r.cvfile, val |-> JSUndefined],
                                r.cstat, res.val, r.cread, r.creadVal)
         out == getTMDBImagesBaseUrlReact(getAPIConfigurationReact(r, v), tmdbImagesBaseUrl)
     IN  /\ poster' = [poster EXCEPT ![c] = out.r]
         /\ tmdbImagesBaseUrl' = out.base
  /\ UNCHANGED <<now, files, info, crashed, posts>>

\* The fs.readFile callback of validateCacheFileContents(configCacheFilePath).
ConfigReadCallback(c) ==
  /\ ~crashed
  /\ poster[c].cread = "pending"
  /\ LET res == validateCacheFileContents(files[configCacheFilePath])
         r == [poster[c] EXCEPT !.cread = IF res.ok THEN "ok" ELSE "fail",
                                !.creadVal = IF res.ok THEN res.val ELSE JSUndefined]
         v == validateCacheFile([state |-> r.cvfile, val |-> JSUndefined],
                                r.cstat, JSUndefined, r.cread, res.val)
         out == getTMDBImagesBaseUrlReact(getAPIConfigurationReact(r, v), tmdbImagesBaseUrl)
     IN  /\ poster' = [poster EXCEPT ![c] = out.r]
         /\ tmdbImagesBaseUrl' = out.base
  /\ UNCHANGED <<now, files, info, crashed, posts>>

\* What MovieDB.configuration can call back with: (null, body) or (error, null).
ConfigurationResponses ==
  { [err |-> JSNull, data |-> d] : d \in ConfigData }
    \cup { [err |-> JSError("network"), data |-> JSNull] }

\* The callback of fetchAPIConfiguration.  reject(err) does not return:
\* saveAPIConfiguration(data) is started and resolve(data) called either way.
fetchAPIConfigurationCallback(r, err, data) ==
  LET r0 == [r EXCEPT !.cferr = err]
      r1 == IF err # JSNull THEN SettleConfig(r0, "rejected", err) ELSE r0
  IN  SettleConfig([r1 EXCEPT !.write = "pending", !.wdata = data], "resolved", data)

ConfigurationResponse(c, resp) ==
  /\ ~crashed
  /\ poster[c].st = "cfgfetching"
  /\ LET out == getTMDBImagesBaseUrlReact(
                  fetchAPIConfigurationCallback(poster[c], resp.err, resp.data),
                  tmdbImagesBaseUrl)
     IN  /\ poster' = [poster EXCEPT ![c] = out.r]
         /\ tmdbImagesBaseUrl' = out.base
  /\ UNCHANGED <<now, files, info, crashed, posts>>

\* The fs.writeFile callback of saveAPIConfiguration:
\* JSON.stringify(configData) is in the file, or the write failed and the
\* catch-handler logs the error.
SaveAPIConfigurationCallback(c, ok) ==
  /\ ~crashed
  /\ poster[c].write = "pending"
  /\ IF ok
       THEN /\ files' = [files EXCEPT ![configCacheFilePath] =
                 Written(c, JSONstringify(poster[c].wdata), now)]
            /\ poster' = [poster EXCEPT ![c].write = "saved"]
       ELSE /\ \E f \in WriteFailed(files[configCacheFilePath], c, now) :
                 files' = [files EXCEPT ![configCacheFilePath] = f]
            /\ poster' = [poster EXCEPT ![c].write = "failed"]
  /\ UNCHANGED <<now, tmdbImagesBaseUrl, info, crashed, posts>>

\* ----------------------------------------------------------- Poster Resolver
\* The size arguments a caller can pass; undefined is 'original'.
SizeArgs == {JSUndefined} \cup { JSString(s) : s \in Sizes }

\* getMoviePoster(posterFileName, size): validateCacheFileDate starts fs.stat
\* on the path of the poster.
getMoviePoster(posterFileName, sizeArg) ==
  LET size == IF sizeArg = JSUndefined THEN "original" ELSE sizeArg.s
  IN  [IdlePoster EXCEPT !.st = "checking", !.name = posterFileName,
                         !.size = size,
                         !.dest = getMoviePosterCachePath(posterFileName, size),
                         !.stat = "pending", !.promise = "pending"]

\* A caller calls getMoviePoster(posterFileName, size).  Call slots are
\* taken in order.
GetMoviePoster(c, posterFileName, sizeArg) ==
  /\ ~crashed
  /\ poster[c].st = "idle"
  /\ \A d \in PosterCalls : d < c => poster[d].st # "idle"
  /\ poster' = [poster EXCEPT ![c] = getMoviePoster(posterFileName, sizeArg)]
  /\ UNCHANGED <<now, files, tmdbImagesBaseUrl, info, crashed, posts>>

\* Mutant: the poster is downloaded whatever the cache holds.
getMoviePosterReactAlwaysFetch(r, res, base) == getTMDBImagesBaseUrl(r, base)

\* The reactions of getMoviePoster to the promise of validateCacheFileDate,
\* settled as res: resolve with the path, or fetchAndSaveMoviePoster, which
\* starts with getTMDBImagesBaseUrl.
getMoviePosterReact(r, res, base) ==
  IF res.ok
    THEN [Settle(r, "resolved", JSString(r.dest)) EXCEPT !.st = "done"]
    ELSE getTMDBImagesBaseUrl(r, base)

\* The fs.stat callback of validateCacheFileDate(destPath).
PosterStatCallback(c) ==
  /\ ~crashed
  /\ poster[c].stat = "pending"
  /\ LET res == validateCacheFileDate(files[poster[c].dest], now)
         r == [poster[c] EXCEPT !.stat = IF res.ok THEN "ok" ELSE "fail"]
     IN  poster' = [poster EXCEPT ![c] = getMoviePosterReact(r, res, tmdbImagesBaseUrl)]
  /\ UNCHANGED <<now, files, tmdbImagesBaseUrl, info, crashed, posts>>

\* The 'error' event of the request: reject(err).  After a 200 response the
\* body has been piped into the file in part, and stays there.
PosterRequestError(c) ==
  /\ ~crashed
  /\ poster[c].st \in {"requesting", "streaming"}
  /\ poster' = [poster EXCEPT ![c] =
       [Settle(@, "rejected", JSError("request")) EXCEPT !.st = "done"]]
  /\ UNCHANGED <<now, files, tmdbImagesBaseUrl, info, crashed, posts>>

\* The status codes of a response.
StatusCodes == {200, 404}

\* Mutant: the body is piped into the file without a look at the status.
posterResponseNoStatusCheck(r, statusCode) ==
  [r EXCEPT !.status = statusCode, !.st = "streaming", !.stream = "opening"]

\* The 'response' handler: reject(response) unless the status is 200, else
\* pipe the body into fs.createWriteStream(destPath).
posterResponse(r, statusCode) ==
  IF statusCode # 200
    THEN [Settle([r EXCEPT !.status = statusCode], "rejected",
                 [t |-> "response", statusCode |-> statusCode]) EXCEPT !.st = "done"]
    ELSE [r EXCEPT !.status = statusCode, !.st = "streaming", !.stream = "opening"]

\* The 'response' event of the request.
PosterResponse(c, statusCode) ==
  /\ ~crashed
  /\ poster[c].st = "requesting"
  /\ poster' = [poster EXCEPT ![c] = posterResponse(@, statusCode)]
  /\ UNCHANGED <<now, files, tmdbImagesBaseUrl, info, crashed, posts>>

\* The write stream opens (creates or truncates) destPath and the body
\* starts to arrive in it.
PosterStreamOpen(c) ==
  /\ ~crashed
  /\ poster[c].stream = "opening"
  /\ files' = [files EXCEPT ![poster[c].dest] = Written(c, ImageBytes(FALSE), now)]
  /\ poster' = [poster EXCEPT ![c].stream = "open"]
  /\ UNCHANGED <<now, tmdbImagesBaseUrl, info, crashed, posts>>

\* The write stream cannot open destPath, or cannot write to it.  Its 'error'
\* event has no listener, so the exception is uncaught and the process dies.
PosterStreamError(c) ==
  /\ ~crashed
  /\ poster[c].stream \in {"opening", "open"}
  /\ poster' = [poster EXCEPT ![c].stream = "failed"]
  /\ crashed' = TRUE
  /\ UNCHANGED <<now, files, tmdbImagesBaseUrl, info, posts>>

\* The body has been written and the write stream emits 'close':
\* resolve(destPath).
PosterStreamClose(c) ==
  /\ ~crashed
  /\ poster[c].st = "streaming" /\ poster[c].stream = "open"
  /\ files' = [files EXCEPT ![poster[c].dest] = Written(c, ImageBytes(TRUE), now)]
  /\ poster' = [poster EXCEPT ![c] =
       [Settle(@, "resolved", JSString(@.dest)) EXCEPT !.st = "done", !.stream = "closed"]]
  /\ UNCHANGED <<now, tmdbImagesBaseUrl, info, crashed, posts>>

\* ------------------------------------------------------------ Batch Driver
\* No export has been parsed: the functions of tmdb_cache are called by
\* another caller.
NoPost == [st |-> "none", postmeta |-> <<>>, movie |-> [tmdb_id |-> JSUndefined],
           posters |-> 0, log |-> JSUndefined]

\* A post of the export that is yet to be worked on.
RawPost(postmeta) == [NoPost EXCEPT !.st = "raw", !.postmeta = postmeta]

\* The wp:postmeta lists of the posts: with and without tmdb_id and imdb_id.
PostMetas ==
  { <<>>,
    <<[key |-> "imdb_id", value |-> "tt0133093"]>>,
    <<[key |-> "imdb_id", value |-> "tt0133093"], [key |-> "tmdb_id", value |-> "603"]>> }

\* A value as it is concatenated into a path
JSToString(v) == IF v.t = "string" THEN v.s ELSE v.t

\* Mutant: a missing meta is reported as undefined.
getMetaValueUndefined(metaKey, postmeta) ==
  LET hits == { i \in 1..Len(postmeta) : postmeta[i].key = metaKey }
  IN  IF hits = {} THEN JSUndefined
      ELSE JSString(postmeta[CHOOSE i \in hits : \A j \in hits : i <= j].value)

\* getMetaValue(metaKey, postmeta): the value of the first meta with that
\* key, false when there is none.
getMetaValue(metaKey, postmeta) ==
  LET hits == { i \in 1..Len(postmeta) : postmeta[i].key = metaKey }
  IN  IF hits = {} THEN JSFalse
      ELSE JSString(postmeta[CHOOSE i \in hits : \A j \in hits : i <= j].value)

\* getRelevantMovieInfo(movieInfo): _.pick of the four properties.
getRelevantMovieInfo(movieInfo) ==
  [f \in {"title", "imdb_id", "poster_path", "release_date"} \cap DOMAIN movieInfo
     |-> JSString(movieInfo[f])]

\* _.extend(movie, source)
extend(movie, source) ==
  [f \in DOMAIN movie \cup DOMAIN source |->
     IF f \in DOMAIN source THEN source[f] ELSE movie[f]]

\* The test of the branch: movie.tmdb_id !== false
hasTmdbId(movie) == movie.tmdb_id # JSFalse

\* The callback of parseString: the loop over the posts, run to its end.
\* A post with a tmdb_id calls getMovieInfo; one without is logged and
\* given the imdb_id of its metas.
ParseStringCallback ==
  /\ ~crashed
  /\ \A p \in Posts : posts[p].st = "raw"
  /\ LET movieOf(p) == [tmdb_id |-> getMetaValue("tmdb_id", posts[p].postmeta)]
     IN  /\ posts' = [p \in Posts |->
                IF hasTmdbId(movieOf(p))
                  THEN [posts[p] EXCEPT !.st = "waiting", !.movie = movieOf(p)]
                  ELSE [posts[p] EXCEPT
                          !.st = "missing",
                          !.log = JSString("Missing tmdb_id"),
                          !.movie = extend(movieOf(p),
                             [imdb_id |-> getMetaValue("imdb_id", posts[p].postmeta)])]]
         /\ info' = [c \in InfoCalls |->
                IF c \in Posts /\ hasTmdbId(movieOf(c))
                  THEN getMovieInfo(JSToString(movieOf(c).tmdb_id), {})
                  ELSE info[c]]
  /\ UNCHANGED <<now, files, tmdbImagesBaseUrl, poster, crashed>>

\* Mutant: the catch-handler too saves a poster, the one of the post's slug.
driverChainPosterAlways(post, r) ==
  IF r.promise = "resolved"
    THEN LET movie == extend(post.movie, getRelevantMovieInfo(r.value))
         IN  [post |-> [post EXCEPT !.st = "merged", !.movie = movie, !.posters = @ + 1],
              call |-> TRUE,
              poster_path |-> IF "poster_path" \in DOMAIN movie
                                THEN movie.poster_path ELSE JSUndefined]
    ELSE [post |-> [post EXCEPT !.st = "logged", !.log = r.value, !.posters = @ + 1],
          call |-> TRUE, poster_path |-> JSString("/p.jpg")]

\* The then- and catch-handler on the promise of getMovieInfo, settled as in
\* r: the relevant properties are merged into the movie and
\* getMoviePoster(movie.poster_path) is called, or the error is logged.
driverChain(post, r) ==
  IF r.promise = "resolved"
    THEN LET movie == extend(post.movie, getRelevantMovieInfo(r.value))
         IN  [post |-> [post EXCEPT !.st = "merged", !.movie = movie, !.posters = @ + 1],
              call |-> TRUE,
              poster_path |-> IF "poster_path" \in DOMAIN movie
                                THEN movie.poster_path ELSE JSUndefined]
    ELSE [post |-> [post EXCEPT !.st = "logged", !.log = r.value],
          call |-> FALSE, poster_path |-> JSUndefined]

\* The then-handler of post p runs: getMovieInfo has resolved.
DriverThen(p) ==
  /\ ~crashed
  /\ posts[p].st = "waiting" /\ info[p].promise = "resolved"
  /\ LET out == driverChain(posts[p], info[p])
     IN  /\ posts' = [posts EXCEPT ![p] = out.post]
         /\ poster' = IF out.call
               THEN [poster EXCEPT ![p] = getMoviePoster(JSToString(out.poster_path), JSUndefined)]
               ELSE poster
  /\ UNCHANGED <<now, files, tmdbImagesBaseUrl, info, crashed>>

\* The catch-handler of post p runs: getMovieInfo has rejected.
DriverCatch(p) ==
  /\ ~crashed
  /\ posts[p].st = "waiting" /\ info[p].promise = "rejected"
  /\ LET out == driverChain(posts[p], info[p])
     IN  /\ posts' = [posts EXCEPT ![p] = out.post]
         /\ poster' = IF out.call
               THEN [poster EXCEPT ![p] = getMoviePoster(JSToString(out.poster_path), JSUndefined)]
               ELSE poster
  /\ UNCHANGED <<now, files, tmdbImagesBaseUrl, info, crashed>>

\* ------------------------------------------------------------ specifications
\* What a metadata cache file can hold before the process starts.
InfoFileStates ==
  {NoFile} \cup { FileOf(b) : b \in
     {JSONstringify(CHOOSE d \in MovieData : d.title = "The Matrix"),
      JSONstringify(JSNull), MalformedBytes} }

\* What the configuration cache file can hold before the process starts.
ConfigFileStates ==
  {NoFile} \cup { FileOf(b) : b \in
     {JSONstringify(EarlierConfigData), JSONstringify(JSNull), MalformedBytes} }

\* What a poster file can hold before the process starts.
PosterFileStates == {NoFile, FileOf(ImageBytes(TRUE)), FileOf(ImageBytes(FALSE))}

\* The states the cache directory can be in before the process starts.
CacheDirs ==
  { [p \in AllPaths |-> IF p \in InfoPaths THEN fi[p]
                        ELSE IF p \in PosterPaths THEN fp[p]
                        ELSE IF p = configCacheFilePath THEN cf ELSE NoFile] :
      fi \in [InfoPaths -> InfoFileStates],
      fp \in [PosterPaths -> PosterFileStates],
      cf \in ConfigFileStates }

\* A process that will make ni getMovieInfo and np getMoviePoster calls.
InitCalls(ni, np) ==
  /\ now = 0
  /\ tmdbImagesBaseUrl = JSUndefined
  /\ info = [c \in InfoCalls |-> IF c <= ni THEN IdleInfo ELSE [IdleInfo EXCEPT !.st = "off"]]
  /\ poster = [c \in PosterCalls |-> IF c <= np THEN IdlePoster ELSE [IdlePoster EXCEPT !.st = "off"]]
  /\ crashed = FALSE
  /\ posts = [p \in Posts |-> NoPost]

InfoCallbacks ==
  \/ \E c \in InfoCalls : InfoStatCallback(c)
  \/ \E c \in InfoCalls : InfoReadCallback(c)
  \/ \E c \in InfoCalls, resp \in MovieInfoResponses : MovieInfoResponse(c, resp)
  \/ \E c \in InfoCalls, ok \in BOOLEAN : SaveMovieInfoCallback(c, ok)

InfoActions ==
  \/ \E c \in InfoCalls, i \in Ids : GetMovieInfo(c, i)
  \/ InfoCallbacks

PosterCallbacks ==
  \/ \E c \in PosterCalls : PosterStatCallback(c)
  \/ \E c \in PosterCalls : ConfigStatCallback(c)
  \/ \E c \in PosterCalls : ConfigReadCallback(c)
  \/ \E c \in PosterCalls, resp \in ConfigurationResponses : ConfigurationResponse(c, resp)
  \/ \E c \in PosterCalls, ok \in BOOLEAN : SaveAPIConfigurationCallback(c, ok)
  \/ \E c \in PosterCalls : PosterRequestError(c)
  \/ \E c \in PosterCalls, sc \in StatusCodes : PosterResponse(c, sc)
  \/ \E c \in PosterCalls : PosterStreamOpen(c)
  \/ \E c \in PosterCalls : PosterStreamError(c)
  \/ \E c \in PosterCalls : PosterStreamClose(c)

PosterActions ==
  \/ \E c \in PosterCalls, n \in PosterNames, s \in SizeArgs : GetMoviePoster(c, n, s)
  \/ PosterCallbacks

\* The Metadata Resolver alone: concurrent getMovieInfo calls.
InitInfo ==
  /\ InitCalls(MaxInfoCalls, 0)
  /\ files \in { d \in CacheDirs :
       \A p \in AllPaths \ InfoPaths : d[p] = NoFile }

NextInfo == InfoActions \/ Tick

SpecInfo == InitInfo /\ [][NextInfo]_vars

\* The Poster and Configuration Resolvers alone: concurrent getMoviePoster calls.
InitPoster ==
  /\ InitCalls(0, MaxPosterCalls)
  /\ files \in { d \in CacheDirs : \A p \in InfoPaths : d[p] = NoFile }

NextPoster == PosterActions \/ Tick

SpecPoster == InitPoster /\ [][NextPoster]_vars

\* One getMovieInfo call and one getMoviePoster call side by side.
InitCache ==
  /\ InitCalls(1, 1)
  /\ files \in CacheDirs

NextCache == InfoActions \/ PosterActions \/ Tick

SpecCache == InitCache /\ [][NextCache]_vars

\* The values saveMovieInfo(tmdb_id, movieInfo) can be handed: the response
\* bodies, null, and objects that hold a number, NaN or undefined.
StoreValues ==
  MovieData \cup {JSNull}
    \cup { [t |-> "object", title |-> "Dune", poster_path |-> "/q.jpg", runtime |-> n] :
             n \in {JSNumber(155), JSNaN, JSUndefined} }

\* The Cache Store alone: saveMovieInfo of any value is under way (call 1)
\* and getMovieInfo calls read the file.
InitStore ==
  /\ now = 0
  /\ tmdbImagesBaseUrl = JSUndefined
  /\ crashed = FALSE
  /\ posts = [p \in Posts |-> NoPost]
  /\ poster = [c \in PosterCalls |-> [IdlePoster EXCEPT !.st = "off"]]
  /\ files \in { d \in CacheDirs :
       \A p \in AllPaths \ InfoPaths : d[p] = NoFile }
  /\ \E v \in StoreValues, i \in Ids :
       info = [c \in InfoCalls |->
                 IF c = 1 THEN [IdleInfo EXCEPT !.st = "done", !.id = i,
                                                !.write = "pending", !.wdata = v]
                          ELSE IdleInfo]

NextStore == InfoActions \/ Tick

SpecStore == InitStore /\ [][NextStore]_vars

\* The Batch Driver on an export of posts with any of the metas.  The cache
\* holds a configuration and no posters, and the batch is over within the
\* ttl, so that fetchAPIConfiguration is not reached.
InitDriver ==
  /\ now = 0
  /\ tmdbImagesBaseUrl = JSUndefined
  /\ crashed = FALSE
  /\ info = [c \in InfoCalls |-> IF c \in Posts THEN IdleInfo ELSE [IdleInfo EXCEPT !.st = "off"]]
  /\ poster = [c \in PosterCalls |-> IF c \in Posts THEN IdlePoster ELSE [IdlePoster EXCEPT !.st = "off"]]
  /\ files \in { d \in CacheDirs :
       /\ d[configCacheFilePath] = FileOf(JSONstringify(EarlierConfigData))
       /\ \A p \in PosterPaths : d[p] = NoFile
       /\ \A p \in InfoPaths :
            d[p] \notin {FileOf(MalformedBytes), FileOf(JSONstringify(JSNull))} }
  /\ posts \in [Posts -> { RawPost(m) : m \in PostMetas }]

NextDriver ==
  \/ ParseStringCallback
  \/ \E p \in Posts : DriverThen(p)
  \/ \E p \in Posts : DriverCatch(p)
  \/ InfoCallbacks
  \/ \E c \in PosterCalls : PosterStatCallback(c)
  \/ \E c \in PosterCalls : ConfigStatCallback(c)
  \/ \E c \in PosterCalls : ConfigReadCallback(c)
  \/ \E c \in PosterCalls : PosterRequestError(c)
  \/ \E c \in PosterCalls, sc \in StatusCodes : PosterResponse(c, sc)
  \/ \E c \in PosterCalls : PosterStreamOpen(c)
  \/ \E c \in PosterCalls : PosterStreamError(c)
  \/ \E c \in PosterCalls : PosterStreamClose(c)

SpecDriver == InitDriver /\ [][NextDriver]_vars

\* The Poster Resolver called with file names and sizes of any shape, on an
\* empty cache, up to the cache look-up of each call.
InitKeys ==
  /\ InitCalls(0, MaxPosterCalls)
  /\ files = [p \in AllPaths |-> NoFile]

NextKeys ==
  \/ \E c \in PosterCalls, n \in KeyNames, s \in KeySizes :
       GetMoviePoster(c, n, JSString(s))
  \/ \E c \in PosterCalls : PosterStatCallback(c)
  \/ Tick

SpecKeys == InitKeys /\ [][NextKeys]_vars

\* ------------------------------------------------------------------ claims
\* The cache file of a getMovieInfo call.
InfoPath(c) == getInfoCacheFilePathFromId(info[c].id)

\* A call has a fetch under way, or has fetched and not yet written the cache.
FetchInFlight(c) == info[c].st = "fetching" \/ info[c].write = "pending"

\* C1: for one cache key at most one fetch is under way (issued, or answered
\* and not yet written to the cache) at any time, also when several
\* getMovieInfo calls for the key were started before the first one finished.
C1_AtMostOneFetchPerKey ==
  \A c, d \in InfoCalls :
    (c # d /\ info[c].id = info[d].id) => ~(FetchInFlight(c) /\ FetchInFlight(d))

Cached(c1, c2) ==
  /\ c1 # c2
  /\ info[c1].id = info[c2].id
  /\ info[c1].fetches = 1
  /\ info[c1].promise = "resolved"
  /\ info[c1].write = "saved"
  /\ c1 \in info[c2].after
  /\ files[InfoPath(c1)].writer = c1
  /\ now - files[InfoPath(c1)].mtime <= defaultTtl

\* C3: a second getMovieInfo(id), started after the first one fetched and
\* wrote the cache, issues no fetch and resolves with the value the first
\* one resolved with (no other write to the file, and within the ttl).
C3_Idempotent ==
  \A c1, c2 \in InfoCalls :
    Cached(c1, c2)
      => /\ info[c2].fetches = 0
         /\ info[c2].st = "done"
              => info[c2].promise = "resolved" /\ info[c2].value = info[c1].value

C3_Witness ==
  \E c1, c2 \in InfoCalls :
    Cached(c1, c2) /\ info[c2].st = "done" /\ info[c2].promise = "resolved"

\* C4 as stated: getAPIConfiguration is invoked at most once per process.
C4_ConfigurationOnce ==
  /\ \A c \in PosterCalls : poster[c].configs <= 1
  /\ Cardinality({c \in PosterCalls : poster[c].configs > 0}) <= 1

\* C4 amended: a poster resolution invokes getAPIConfiguration at most once,
\* and only while the singleton is unset; resolutions that overlap before the
\* singleton is set each invoke it.
C4_ConfigurationOncePerCallWhileUnset ==
  [][\A c \in PosterCalls :
       poster'[c].configs # poster[c].configs
         => /\ poster[c].configs = 0 /\ poster'[c].configs = 1
            /\ tmdbImagesBaseUrl = JSUndefined]_vars

C4_Witness ==
  \E c, d \in PosterCalls :
    /\ c # d
    /\ poster[c].st = "config" /\ poster[c].configs = 1
    /\ poster[d].st = "config" /\ poster[d].configs = 1

\* The stat callback of call c runs in this step, on a file that exists.
StatRuns(c) ==
  /\ info[c].stat = "pending" /\ info'[c].stat # "pending"
  /\ files[InfoPath(c)].exists

\* C5 as stated: the freshness check succeeds at every time before T + ttl and
\* fails as stale at every time from T + ttl on, T the time of the last write.
C5_FreshBeforeStaleFrom ==
  [][\A c \in InfoCalls :
       StatRuns(c)
         => IF now < files[InfoPath(c)].mtime + defaultTtl
              THEN info'[c].stat = "ok"
              ELSE info'[c].stat = "fail" /\ info'[c].statVal = JSNull]_vars

\* C5 amended: it succeeds at every time up to and including T + ttl and
\* fails as stale at every time after T + ttl.
C5_FreshUpToStaleAfter ==
  [][\A c \in InfoCalls :
       StatRuns(c)
         => IF now <= files[InfoPath(c)].mtime + defaultTtl
              THEN info'[c].stat = "ok"
              ELSE info'[c].stat = "fail" /\ info'[c].statVal = JSNull]_vars

C5_Witness ==
  \E c \in InfoCalls :
    /\ info[c].stat = "fail" /\ info[c].statVal = JSNull
    /\ now > files[InfoPath(c)].mtime + defaultTtl

\* The read callback of call c found the bytes, no JSON, that the cache file
\* has held since before the process started.
ReadMalformed(c) ==
  /\ info[c].read = "fail"
  /\ files[InfoPath(c)] = FileOf(MalformedBytes)

\* C6 as stated: validateCacheFile of a file that holds no JSON rejects with
\* the parse error, fresh or stale, in either order of the two callbacks.
C6_RejectsWithParseError ==
  \A c \in InfoCalls :
    ReadMalformed(c)
      => info[c].vfile = "rejected" /\ info[c].verr = JSError("SyntaxError")

\* C6 amended: it rejects, fresh or stale, in either order of the callbacks;
\* with the parse error when the file is fresh or the read callback comes
\* first, and with the (null) rejection of a stale file when the file is stale
\* and the stat callback comes first.
C6_Rejects ==
  \A c \in InfoCalls :
    ReadMalformed(c)
      => /\ info[c].vfile = "rejected"
         /\ info[c].verr \in {JSError("SyntaxError"), JSNull}
         /\ info[c].verr = JSNull => info[c].stat = "fail"
         /\ info[c].stat = "ok" => info[c].verr = JSError("SyntaxError")

C6_Witness ==
  \E c \in InfoCalls :
    ReadMalformed(c) /\ info[c].stat = "fail" /\ info[c].verr = JSNull

\* C7: when the fetch reports an error, the promise of getMovieInfo is
\* rejected with it, never resolved, and the call made one network attempt.
C7_FetchErrorRejects ==
  \A c \in InfoCalls :
    info[c].ferr.t = "error"
      => /\ info[c].promise = "rejected"
         /\ info[c].value = info[c].ferr
         /\ info[c].fetches = 1

C7_Witness ==
  \E c \in InfoCalls : info[c].ferr.t = "error" /\ info[c].promise = "rejected"

\* C8: when validateCacheFile rejects (file missing, stale, or no JSON),
\* getMovieInfo and getAPIConfiguration go on to a network fetch, and their
\* promise is rejected only with the error of that fetch.
C8_CacheFailureFetches ==
  /\ \A c \in InfoCalls :
       info[c].vfile = "rejected"
         => /\ info[c].fetches = 1
            /\ info[c].promise = "rejected"
                 => info[c].ferr.t = "error" /\ info[c].value = info[c].ferr
  /\ \A c \in PosterCalls :
       poster[c].cvfile = "rejected"
         => /\ poster[c].cfetches = 1
            /\ poster[c].cpromise = "rejected"
                 => poster[c].cferr.t = "error" /\ poster[c].cvalue = poster[c].cferr

C8_Witness ==
  /\ \E c \in InfoCalls :
       info[c].vfile = "rejected" /\ info[c].verr = JSNull /\ info[c].promise = "resolved"
  /\ \E c \in PosterCalls :
       poster[c].cvfile = "rejected" /\ poster[c].cread = "fail"
         /\ poster[c].cpromise = "resolved"

\* C9: when the stat callback finds the poster file within the ttl,
\* getMoviePoster resolves with its path, and resolves no configuration and
\* downloads nothing; what the file holds does not matter.
C9_PosterCacheHit ==
  \A c \in PosterCalls :
    poster[c].stat = "ok"
      => /\ poster[c].promise = "resolved"
         /\ poster[c].value = JSString(poster[c].dest)
         /\ poster[c].configs = 0 /\ poster[c].cfetches = 0
         /\ poster[c].requests = 0 /\ poster[c].stream = "none"

C9_Witness ==
  \E c \in PosterCalls :
    /\ poster[c].stat = "ok" /\ poster[c].promise = "resolved"
    /\ files[poster[c].dest] = FileOf(ImageBytes(FALSE))

\* C10: a response with a status other than 200 rejects the poster
\* resolution with the response, and the call opens no write stream and
\* writes nothing to the destination path.
C10_Not200Rejects ==
  \A c \in PosterCalls :
    poster[c].status \notin {0, 200}
      => /\ poster[c].promise = "rejected"
         /\ poster[c].value = [t |-> "response", statusCode |-> poster[c].status]
         /\ poster[c].stream = "none"
         /\ files[poster[c].dest].writer # c

C10_Witness ==
  \E c \in PosterCalls : poster[c].status = 404 /\ poster[c].promise = "rejected"

\* C11: an I/O error of the download or of the write to the destination
\* file rejects the promise of getMoviePoster: after a request error, and
\* after an error of the write stream, the promise is rejected.
C11_IOErrorRejects ==
  \A c \in PosterCalls :
    /\ poster[c].stream = "failed" => poster[c].promise = "rejected"
    /\ (poster[c].st = "done" /\ poster[c].stream = "open")
         => poster[c].promise = "rejected"

\* C16 as far as the Configuration Resolver goes: when the fetch callback
\* reports an error, no write of the cache file is started.
C16_NoWriteOnFetchError ==
  /\ \A c \in InfoCalls : info[c].ferr.t = "error" => info[c].write = "none"
  /\ \A c \in PosterCalls : poster[c].cferr.t = "error" => poster[c].write = "none"

\* C17: after a successful fetch the promise of getMovieInfo is resolved with
\* the fetched value from the fetch callback on, while the cache write is
\* still under way, and whether the write succeeds or fails.
C17_ResolvesBeforeWrite ==
  \A c \in InfoCalls :
    info[c].ferr = JSNull
      => /\ info[c].promise = "resolved"
         /\ info[c].value = info[c].wdata
         /\ info[c].write \in {"pending", "saved", "failed"}

C17_Witness ==
  \E c, d \in InfoCalls :
    /\ info[c].ferr = JSNull /\ info[c].write = "pending" /\ info[c].promise = "resolved"
    /\ info[d].ferr = JSNull /\ info[d].write = "failed" /\ info[d].promise = "resolved"

\* C20: getMoviePoster resolves with a path only when the file the process
\* wrote at that path holds a completely downloaded body.
C20_ResolvesOnlyWithCompleteFile ==
  [][\A c \in PosterCalls :
       (poster[c].promise = "pending" /\ poster'[c].promise = "resolved"
          /\ files'[poster[c].dest].writer # 0)
         => files'[poster[c].dest].content = ImageBytes(TRUE)]_vars

\* C19: the singleton is unset or the images.base_url of a configuration
\* that one of the calls resolved; once set it is never unset again; and a
\* getTMDBImagesBaseUrl call that starts while it is set issues the request
\* with its value at once, with no stat, read or fetch of the configuration.
C19_SingletonSetOnce ==
  [][/\ tmdbImagesBaseUrl' = JSUndefined
          \/ \E c \in PosterCalls :
               /\ poster'[c].cpromise = "resolved"
               /\ HasBaseUrl(poster'[c].cvalue)
               /\ tmdbImagesBaseUrl' = JSString(poster'[c].cvalue.images.base_url)
     /\ tmdbImagesBaseUrl # JSUndefined => tmdbImagesBaseUrl' # JSUndefined
     /\ \A c \in PosterCalls :
          (tmdbImagesBaseUrl # JSUndefined
             /\ poster[c].stat = "pending" /\ poster'[c].stat = "fail")
            => /\ poster'[c].st = "requesting"
               /\ poster'[c].url = tmdbImagesBaseUrl.s \o poster[c].size \o poster[c].name
               /\ poster'[c].configs = 0 /\ poster'[c].cfetches = 0
               /\ poster'[c].cstat = "none" /\ poster'[c].cread = "none"
               /\ tmdbImagesBaseUrl' = tmdbImagesBaseUrl]_vars

C19_Witness ==
  \E c, d \in PosterCalls :
    /\ poster[c].cpromise = "resolved" /\ poster[c].requests = 1
    /\ poster[d].configs = 0 /\ poster[d].requests = 1
    /\ tmdbImagesBaseUrl # JSUndefined
    /\ poster[d].url = tmdbImagesBaseUrl.s \o poster[d].size \o poster[d].name

\* A value JSON can represent: null, or an object without NaN and undefined.
JSONRepresentable(v) ==
  \/ v = JSNull
  \/ /\ v.t = "object"
     /\ "runtime" \in DOMAIN v => v.runtime.t = "number"

\* Call d reads (validateCacheFileContents) the file that the completed
\* saveMovieInfo of call c wrote last.
ReadsWriteOf(d, c) ==
  /\ info[d].read = "pending" /\ info'[d].read # "pending"
  /\ info[c].write = "saved"
  /\ info[d].id = info[c].id
  /\ files[InfoPath(c)].writer = c

C18_KeysInjective ==
  /\ \A c, d \in PosterCalls :
       (poster[c].st \notin {"idle", "off"} /\ poster[d].st \notin {"idle", "off"}
          /\ <<poster[c].name, poster[c].size>> # <<poster[d].name, poster[d].size>>)
         => poster[c].dest # poster[d].dest
  /\ \A i \in Ids :
       /\ getInfoCacheFilePathFromId(i) # configCacheFilePath
       /\ \A c \in PosterCalls : getInfoCacheFilePathFromId(i) # poster[c].dest

\* Post p carries no meta with key k.
NoMeta(p, k) ==
  \A i \in 1..Len(posts[p].postmeta) : posts[p].postmeta[i].key # k

\* C12: getMoviePoster is called for a post only when its getMovieInfo call
\* has resolved, once, with the poster_path of the value it resolved with and
\* size 'original'; a post whose then-handler has run has called it.
C12_PosterAfterInfoResolved ==
  \A p \in Posts :
    /\ poster[p].st # "idle"
         => /\ info[p].promise = "resolved"
            /\ poster[p].name = info[p].value.poster_path
            /\ poster[p].size = "original"
            /\ posts[p].posters = 1
    /\ posts[p].st = "merged" => poster[p].st # "idle"
    /\ poster[p].st = "idle" => posts[p].posters = 0

C12_Witness ==
  \E p, q \in Posts :
    /\ poster[p].st # "idle" /\ poster[p].name = "/q.jpg"
    /\ info[q].promise = "rejected" /\ posts[q].st = "logged" /\ poster[q].st = "idle"

\* C13: a failure of one post's resolutions does not abort the batch and is
\* logged by the Batch Driver: the process does not die while a post waits
\* for its outcome, and a rejected getMoviePoster is logged for its post.
C13_FailuresLoggedBatchGoesOn ==
  \A p \in Posts :
    /\ crashed => posts[p].st # "waiting"
    /\ poster[p].promise = "rejected" => posts[p].st = "logged"

\* C14: a post without tmdb_id meta calls neither getMovieInfo nor
\* getMoviePoster and has the imdb_id of its metas (false when it has none).
C14_NoTmdbIdNoCalls ==
  \A p \in Posts :
    (NoMeta(p, "tmdb_id") /\ posts[p].st # "raw")
      => /\ info[p].st = "idle" /\ poster[p].st = "idle"
         /\ posts[p].st = "missing"
         /\ "imdb_id" \in DOMAIN posts[p].movie
         /\ IF NoMeta(p, "imdb_id")
              THEN posts[p].movie.imdb_id = JSFalse
              ELSE \E i \in 1..Len(posts[p].postmeta) :
                     /\ posts[p].postmeta[i].key = "imdb_id"
                     /\ posts[p].movie.imdb_id = JSString(posts[p].postmeta[i].value)

C14_Witness ==
  \E p, q \in Posts :
    /\ posts[p].st = "missing" /\ posts[p].movie.imdb_id = JSString("tt0133093")
    /\ info[p].st = "idle" /\ poster[p].st = "idle"
    /\ poster[q].promise = "resolved"

====
